---- MODULE Spec2Model ----
(***************************************************************************)
(* A model of download_LidarHD.py: the command-line run that matches a     *)
(* user shapefile against the tile catalog, downloads the matching tiles   *)
(* and optionally rasterizes each downloaded tile with a PDAL pipeline.    *)
(*                                                                         *)
(* Text is modelled at token granularity: a Python str is a sequence of    *)
(* tokens, the tokens being "/", ".copc.laz", ".tif", " || ",              *)
(* "Classification == " and names that contain none of these.  split,      *)
(* replace, join and os.path.join are computed on these sequences the way  *)
(* Python computes them on characters.  A float is its value in tenths.    *)
(***************************************************************************)
EXTENDS Integers, Sequences, FiniteSets, TLC

VARIABLES pc, exc, args, user_shp, urls, i, responses, output_files,
          lidar_data, j, calls, disk, tmpdisk, writes, stdout

vars == <<pc, exc, args, user_shp, urls, i, responses, output_files,
          lidar_data, j, calls, disk, tmpdisk, writes, stdout>>

-----------------------------------------------------------------------------
(* Bounds and program constants *)

\* the user shapefile holds at most MaxGeoms geometries
MaxGeoms == 2

\* default of --res, 0.5 m, in tenths
DefaultRes == 5

\* "nodata" of the writer stage
NoData == -9999

\* the only status the download loop takes as a success
StatusOk == 200

-----------------------------------------------------------------------------
(* Text *)

Sep == "/"
LazExt == ".copc.laz"
TifExt == ".tif"
OrOp == " || "
ClassEq == "Classification == "
All == "ALL"

\* posixpath.join(a, b)
PathJoin(a, b) ==
    IF Len(b) > 0 /\ Head(b) = Sep THEN b
    ELSE IF Len(a) = 0 \/ a[Len(a)] = Sep THEN a \o b
    ELSE a \o <<Sep>> \o b

\* s.replace(old, new): every occurrence is replaced
StrReplace(s, old, new) ==
    [k \in 1..Len(s) |-> IF s[k] = old THEN new ELSE s[k]]

\* s.split('/')[-1]: the text after the last "/", the whole text without one
SplitLast(s) ==
    LET seps == {k \in 1..Len(s) : s[k] = Sep}
        last == IF seps = {} THEN 0
                ELSE CHOOSE k \in seps : \A m \in seps : m <= k
    IN  SubSeq(s, last + 1, Len(s))

\* sep.join(items)
RECURSIVE StrJoin(_, _)
StrJoin(sep, items) ==
    IF Len(items) = 0 THEN <<>>
    ELSE IF Len(items) = 1 THEN items[1]
    ELSE items[1] \o sep \o StrJoin(sep, Tail(items))

-----------------------------------------------------------------------------
(* Python values of the command line *)

\* an element of args.classes: an int of the default list, or a str token
PyInt(n) == [t |-> "int", n |-> n, s |-> ""]
PyStr(s) == [t |-> "str", n |-> 0, s |-> s]

\* f"{c}"
Format(c) == IF c.t = "int" THEN ToString(c.n) ELSE c.s

\* the value main passes as classes: the str 'ALL' or the list args.classes
ClsStr(s) == [py |-> "str", s |-> s, l |-> <<>>]
ClsList(l) == [py |-> "list", s |-> "", l |-> l]

\* default of --classes
DefaultClasses == <<PyInt(2), PyInt(3), PyInt(4), PyInt(5)>>

\* the --classes values of the runs explored
ClassesArgs ==
    { DefaultClasses,
      <<PyStr(All)>>,
      <<PyStr("2"), PyStr(All)>>,
      <<PyStr("2")>>,
      <<PyStr("2"), PyStr("3")>>,
      <<>> }

\* the --res tokens of the runs explored; "" is the option left out
ResTokens == {"", "1.0", "0", "-1", "abc"}

\* type=float of --res: float(token), in tenths; "abc" is no float
ParseFloat(tok) ==
    CASE tok = ""    -> [ok |-> TRUE,  val |-> DefaultRes]
      [] tok = "1.0" -> [ok |-> TRUE,  val |-> 10]
      [] tok = "0"   -> [ok |-> TRUE,  val |-> 0]
      [] tok = "-1"  -> [ok |-> TRUE,  val |-> -10]
      [] OTHER       -> [ok |-> FALSE, val |-> 0]

\* the -output values of the runs explored: a relative and an absolute folder
OutputDirs == { <<"out">>, <<Sep, "srv">> }

-----------------------------------------------------------------------------
(* The tile catalog and the spatial match *)

U1 == <<"h1", Sep, "a", LazExt>>
U2 == <<"h1", Sep, "b", LazExt>>
U3 == <<"h2", Sep, "a", LazExt>>

\* ./data/TA_diff_pkk_lidarhd_classe.shp: footprints (sets of cells) and URLs;
\* two tiles name the same URL, two URLs end in the same path segment
Catalog ==
    << [geometry |-> {1},    url_telech |-> U1],
       [geometry |-> {1, 2}, url_telech |-> U2],
       [geometry |-> {2},    url_telech |-> U1],
       [geometry |-> {3},    url_telech |-> U3] >>

\* the geometries a user shapefile is made of
UserGeoms == { {1}, {2}, {3} }

RECURSIVE SeqsUpTo(_, _)
SeqsUpTo(S, n) ==
    IF n = 0 THEN { <<>> }
    ELSE SeqsUpTo(S, n - 1) \cup
         { Append(s, e) : s \in {t \in SeqsUpTo(S, n - 1) : Len(t) = n - 1}, e \in S }

UserShps == SeqsUpTo(UserGeoms, MaxGeoms)

\* gpd.sjoin(left, right, how="inner", op='intersects')['url_telech']:
\* one row per intersecting pair, by left row and then by right row
RECURSIVE SjoinUrls(_, _, _, _)
SjoinUrls(left, right, a, b) ==
    IF a > Len(left) THEN <<>>
    ELSE IF b > Len(right) THEN SjoinUrls(left, right, a + 1, 1)
    ELSE (IF left[a] \cap right[b].geometry # {}
          THEN <<right[b].url_telech>> ELSE <<>>)
         \o SjoinUrls(left, right, a, b + 1)

\* Series.unique(): first occurrences, in order of appearance
RECURSIVE Unique(_)
Unique(s) ==
    IF Len(s) = 0 THEN <<>>
    ELSE LET front == Unique(SubSeq(s, 1, Len(s) - 1))
             x == s[Len(s)]
         IN  IF \E k \in 1..Len(front) : front[k] = x THEN front
             ELSE Append(front, x)

-----------------------------------------------------------------------------
(* The pipeline of point_cloud_to_tif *)

WriterStage(input_las, output_directory, resolution) ==
    [ type        |-> "writers.gdal",
      filename    |-> PathJoin(output_directory, StrReplace(input_las, LazExt, TifExt)),
      gdaldriver  |-> "GTiff",
      output_type |-> "idw",
      resolution  |-> resolution,
      data_type   |-> "float32",
      nodata      |-> NoData ]

\* " || ".join([f"Classification == {c}" for c in classes])
Expression(codes) ==
    StrJoin(<<OrOp>>, [k \in 1..Len(codes) |-> <<ClassEq, Format(codes[k])>>])

FilterStage(codes) ==
    [ type |-> "filters.expression", expression |-> Expression(codes) ]

\* list.insert(1, x)
Insert1(l, x) == <<l[1], x>> \o Tail(l)

\* BuildPipeline with the filter appended after the writer
BuildPipeline_Appends(input_las, output_directory, classes, resolution) ==
    LET pipeline == << input_las, WriterStage(input_las, output_directory, resolution) >>
    IN  IF ~(classes.py = "str" /\ classes.s = All)
        THEN Append(pipeline, FilterStage(classes.l))
        ELSE pipeline

BuildPipeline(input_las, output_directory, classes, resolution) ==
    LET pipeline == << input_las, WriterStage(input_las, output_directory, resolution) >>
    IN  IF ~(classes.py = "str" /\ classes.s = All)
        THEN Insert1(pipeline, FilterStage(classes.l))
        ELSE pipeline

\* tempfile.NamedTemporaryFile(suffix='.json'): a name no earlier call got
TempName(k) == <<Sep, "tmp", Sep, "tmp", ToString(k), ".json">>

-----------------------------------------------------------------------------
(* The run *)

NoArgs == [ output |-> <<>>, verbose |-> 0, to_dtm |-> 0, classes |-> <<>>,
            res |-> 0 ]

Init ==
    /\ pc = "parse_args"
    /\ exc = "none"
    /\ args = NoArgs
    /\ user_shp = <<>>
    /\ urls = <<>>
    /\ i = 1
    /\ responses = <<>>
    /\ output_files = <<>>
    /\ lidar_data = <<>>
    /\ j = 1
    /\ calls = <<>>
    /\ disk = {}
    /\ tmpdisk = {}
    /\ writes = <<>>
    /\ stdout = <<>>

Running == exc = "none"

\* print(...) under `if verbose == 1`
VerbosePrint(out, msgs) == IF args.verbose = 1 THEN out \o msgs ELSE out

\* parse_args(): the options are accepted
ParseArgs ==
    /\ Running /\ pc = "parse_args"
    /\ \E o \in OutputDirs, v \in {0, 1}, d \in {0, 1}, c \in ClassesArgs, r \in ResTokens :
          /\ ParseFloat(r).ok
          /\ args' = [ output |-> o, verbose |-> v, to_dtm |-> d, classes |-> c,
                       res |-> ParseFloat(r).val ]
    /\ pc' = "read_input"
    /\ UNCHANGED <<exc, user_shp, urls, i, responses, output_files, lidar_data, j,
                   calls, disk, tmpdisk, writes, stdout>>

\* parse_args(): --res is no float, argparse reports it and exits
ParseArgsError ==
    /\ Running /\ pc = "parse_args"
    /\ \E r \in ResTokens : ~ParseFloat(r).ok
    /\ exc' = "SystemExit"
    /\ UNCHANGED <<pc, args, user_shp, urls, i, responses, output_files, lidar_data, j,
                   calls, disk, tmpdisk, writes, stdout>>

\* main: gpd.read_file(args.input), then the first print
ReadUserShp ==
    /\ Running /\ pc = "read_input"
    /\ \E shp \in UserShps : user_shp' = shp
    /\ stdout' = Append(stdout, <<"[INFO] Downloading LidarHD data...">>)
    /\ pc' = "read_catalog"
    /\ UNCHANGED <<exc, args, urls, i, responses, output_files, lidar_data, j,
                   calls, disk, tmpdisk, writes>>

\* main: gpd.read_file(args.input) raises on a malformed shapefile
ReadUserShpFails ==
    /\ Running /\ pc = "read_input"
    /\ exc' = "DriverError"
    /\ UNCHANGED <<pc, args, user_shp, urls, i, responses, output_files, lidar_data, j,
                   calls, disk, tmpdisk, writes, stdout>>

\* download_lidar_data: the catalog is read, joined and its URLs made unique
ReadCatalog ==
    /\ Running /\ pc = "read_catalog"
    /\ urls' = Unique(SjoinUrls(user_shp, Catalog, 1, 1))
    /\ i' = 1
    /\ output_files' = <<>>
    /\ pc' = "fetch"
    /\ UNCHANGED <<exc, args, user_shp, responses, lidar_data, j, calls, disk, tmpdisk,
                   writes, stdout>>

\* download_lidar_data: gpd.read_file of the catalog raises
ReadCatalogFails ==
    /\ Running /\ pc = "read_catalog"
    /\ exc' = "DriverError"
    /\ UNCHANGED <<pc, args, user_shp, urls, i, responses, output_files, lidar_data, j,
                   calls, disk, tmpdisk, writes, stdout>>

\* open(path, 'wb').write(content): the file is created or overwritten
WriteFile(d, path, content) ==
    {f \in d : f.path # path} \cup {[path |-> path, content |-> content]}

\* one pass of the loop, the response has status 200
Fetch200 ==
    /\ Running /\ pc = "fetch" /\ i <= Len(urls)
    /\ LET url == urls[i]
           filename == SplitLast(url)
           path == PathJoin(args.output, filename)
       IN  /\ responses' = Append(responses, StatusOk)
           /\ disk' = WriteFile(disk, path, url)
           /\ writes' = Append(writes, [url |-> url, path |-> path])
           /\ output_files' = Append(output_files, filename)
           /\ stdout' = VerbosePrint(stdout,
                  << <<"[INFO] Downloading file from:">> \o url,
                     <<"[INFO] Download done for file: ">> \o filename >>)
    /\ i' = i + 1
    /\ UNCHANGED <<pc, exc, args, user_shp, urls, lidar_data, j, calls, tmpdisk>>

\* the statuses other than 200 that a response can carry
FailStatuses == {404, 503}

\* FetchNon200 with the append left outside the test of the status
FetchNon200_Appends ==
    /\ Running /\ pc = "fetch" /\ i <= Len(urls)
    /\ \E status \in FailStatuses : responses' = Append(responses, status)
    /\ output_files' = Append(output_files, SplitLast(urls[i]))
    /\ stdout' = VerbosePrint(stdout,
           << <<"[INFO] Downloading file from:">> \o urls[i],
              <<"[INFO] Download failed for file: ">> \o urls[i] >>)
    /\ i' = i + 1
    /\ UNCHANGED <<pc, exc, args, user_shp, urls, lidar_data, j, calls,
                   disk, tmpdisk, writes>>

\* one pass of the loop, the response has another status
FetchNon200 ==
    /\ Running /\ pc = "fetch" /\ i <= Len(urls)
    /\ \E status \in FailStatuses : responses' = Append(responses, status)
    /\ stdout' = VerbosePrint(stdout,
           << <<"[INFO] Downloading file from:">> \o urls[i],
              <<"[INFO] Download failed for file: ">> \o urls[i] >>)
    /\ i' = i + 1
    /\ UNCHANGED <<pc, exc, args, user_shp, urls, output_files, lidar_data, j, calls,
                   disk, tmpdisk, writes>>

\* one pass of the loop, requests.get raises: nothing catches it
FetchRaises ==
    /\ Running /\ pc = "fetch" /\ i <= Len(urls)
    /\ exc' = "ConnectionError"
    /\ UNCHANGED <<pc, args, user_shp, urls, i, responses, output_files, lidar_data, j,
                   calls, disk, tmpdisk, writes, stdout>>

\* the loop is over: return output_files, main prints and tests args.to_dtm
DownloadReturn ==
    /\ Running /\ pc = "fetch" /\ i > Len(urls)
    /\ lidar_data' = output_files
    /\ stdout' = Append(stdout, <<"[INFO] LidarHD data successfully downloaded.">>)
    /\ j' = 1
    /\ pc' = IF args.to_dtm # 0 THEN "raster" ELSE "done"
    /\ UNCHANGED <<exc, args, user_shp, urls, i, responses, output_files, calls, disk,
                   tmpdisk, writes>>

\* what main passes as classes
MainClasses ==
    IF \E k \in 1..Len(args.classes) : args.classes[k] = PyStr(All)
    THEN ClsStr(All) ELSE ClsList(args.classes)

\* main calls point_cloud_to_tif on the next file: the pipeline is built and
\* dumped to a new temporary file
PointCloudToTif ==
    /\ Running /\ pc = "raster" /\ j <= Len(lidar_data)
    /\ LET input_las == PathJoin(args.output, lidar_data[j])
           pipeline == BuildPipeline(input_las, args.output, MainClasses, args.res)
           temp_file_path == TempName(Len(calls) + 1)
       IN  /\ calls' = Append(calls,
                  [ input_las |-> input_las, classes |-> MainClasses,
                    pipeline |-> pipeline, temp_file_path |-> temp_file_path,
                    engine |-> "pending", remove |-> "pending", left |-> "no" ])
           /\ tmpdisk' = tmpdisk \cup
                  {[path |-> temp_file_path, content |-> [pipeline |-> pipeline]]}
    /\ pc' = "engine"
    /\ UNCHANGED <<exc, args, user_shp, urls, i, responses, output_files, lidar_data, j,
                   disk, writes, stdout>>

ThisCall == calls[Len(calls)]

SetCall(field, value) == [calls EXCEPT ![Len(calls)][field] = value]

\* subprocess.run returns with status 0: the engine wrote the raster
EngineOk ==
    /\ Running /\ pc = "engine"
    /\ LET p == ThisCall.pipeline
       IN  disk' = WriteFile(disk, p[Len(p)].filename, p[1])
    /\ calls' = SetCall("engine", "ok")
    /\ pc' = "finally"
    /\ UNCHANGED <<exc, args, user_shp, urls, i, responses, output_files, lidar_data, j,
                   tmpdisk, writes, stdout>>

\* subprocess.run raises CalledProcessError: caught and printed
EngineNonZero ==
    /\ Running /\ pc = "engine"
    /\ calls' = SetCall("engine", "nonzero")
    /\ stdout' = Append(stdout, <<"Error running PDAL pipeline: ">> \o ThisCall.temp_file_path)
    /\ pc' = "finally"
    /\ UNCHANGED <<exc, args, user_shp, urls, i, responses, output_files, lidar_data, j,
                   disk, tmpdisk, writes>>

\* EngineCannotLaunch with the removal after the try statement instead of in
\* a finally clause: the exception leaves the function at once
EngineCannotLaunch_NoFinally ==
    /\ Running /\ pc = "engine"
    /\ calls' = [calls EXCEPT ![Len(calls)].engine = "nolaunch",
                              ![Len(calls)].left = "raised"]
    /\ exc' = "FileNotFoundError"
    /\ UNCHANGED <<pc, args, user_shp, urls, i, responses, output_files, lidar_data, j,
                   disk, tmpdisk, writes, stdout>>

\* subprocess.run raises FileNotFoundError (no pdal to launch): no except
\* clause matches, the finally clause runs with the exception pending
EngineCannotLaunch ==
    /\ Running /\ pc = "engine"
    /\ calls' = SetCall("engine", "nolaunch")
    /\ pc' = "finally"
    /\ UNCHANGED <<exc, args, user_shp, urls, i, responses, output_files, lidar_data, j,
                   disk, tmpdisk, writes, stdout>>

\* how point_cloud_to_tif is left after the finally clause
Leave(call, removed) ==
    IF ~removed THEN [left |-> "raised", exc |-> "PermissionError"]
    ELSE IF call.engine = "nolaunch" THEN [left |-> "raised", exc |-> "FileNotFoundError"]
    ELSE [left |-> "returned", exc |-> "none"]

\* finally: os.remove(temp_file_path) removes the file
RemoveOk ==
    /\ Running /\ pc = "finally"
    /\ tmpdisk' = {f \in tmpdisk : f.path # ThisCall.temp_file_path}
    /\ LET l == Leave(ThisCall, TRUE)
       IN  /\ calls' = [calls EXCEPT ![Len(calls)].remove = "ok",
                                     ![Len(calls)].left = l.left]
           /\ exc' = l.exc
           /\ pc' = IF l.exc = "none" THEN "raster" ELSE pc
           /\ j' = IF l.exc = "none" THEN j + 1 ELSE j
    /\ UNCHANGED <<args, user_shp, urls, i, responses, output_files, lidar_data,
                   disk, writes, stdout>>

\* finally: os.remove(temp_file_path) raises, the file stays
RemoveFails ==
    /\ Running /\ pc = "finally"
    /\ LET l == Leave(ThisCall, FALSE)
       IN  /\ calls' = [calls EXCEPT ![Len(calls)].remove = "failed",
                                     ![Len(calls)].left = l.left]
           /\ exc' = l.exc
    /\ UNCHANGED <<pc, args, user_shp, urls, i, responses, output_files, lidar_data, j,
                   disk, tmpdisk, writes, stdout>>

\* the rasterizing loop is over
RasterDone ==
    /\ Running /\ pc = "raster" /\ j > Len(lidar_data)
    /\ stdout' = Append(stdout, <<"[INFO] Lidar data successfully rasterized.">>)
    /\ pc' = "done"
    /\ UNCHANGED <<exc, args, user_shp, urls, i, responses, output_files, lidar_data, j,
                   calls, disk, tmpdisk, writes>>

Next ==
    \/ ParseArgs \/ ParseArgsError
    \/ ReadUserShp \/ ReadUserShpFails
    \/ ReadCatalog \/ ReadCatalogFails
    \/ Fetch200 \/ FetchNon200 \/ FetchRaises \/ DownloadReturn
    \/ PointCloudToTif
    \/ EngineOk \/ EngineNonZero \/ EngineCannotLaunch
    \/ RemoveOk \/ RemoveFails
    \/ RasterDone

Spec == Init /\ [][Next]_vars

-----------------------------------------------------------------------------
(* Properties *)

\* the process has ended, normally or by an uncaught exception
Terminated == pc = "done" \/ exc # "none"

\* download_lidar_data has returned to main
DownloadReturned == pc \in {"raster", "engine", "finally", "done"}

\* the download loop has been entered
LoopEntered == pc \in {"fetch", "raster", "engine", "finally", "done"}

\* requests.get calls made so far
GetCalls == Len(responses) + (IF pc = "fetch" /\ exc = "ConnectionError" THEN 1 ELSE 0)

Range(s) == {s[k] : k \in 1..Len(s)}

\* b is the final path segment of url
IsBasename(b, url) ==
    /\ Len(b) <= Len(url)
    /\ SubSeq(url, Len(url) - Len(b) + 1, Len(url)) = b
    /\ \A k \in 1..Len(b) : b[k] # Sep
    /\ Len(b) < Len(url) => url[Len(url) - Len(b)] = Sep

\* the URLs of us answered with status 200 in rs, in order
RECURSIVE Succeeded(_, _)
Succeeded(us, rs) ==
    IF Len(us) = 0 \/ Len(rs) = 0 THEN <<>>
    ELSE (IF rs[1] = 200 THEN <<us[1]>> ELSE <<>>) \o Succeeded(Tail(us), Tail(rs))

\* C1: when download_lidar_data returns, every URL got a response, the list
\* returned holds the basenames of the URLs answered with 200, in iteration
\* order, and nothing was written for a URL answered otherwise.
C1_ReturnsSuccessfulSubset ==
    DownloadReturned =>
        LET ok == Succeeded(urls, responses)
        IN  /\ Len(responses) = Len(urls)
            /\ Len(lidar_data) = Len(ok)
            /\ \A n \in 1..Len(ok) : IsBasename(lidar_data[n], ok[n])
            /\ \A w \in 1..Len(writes) : writes[w].url \in Range(ok)
            /\ \A f \in disk : f.content \in Range(urls) => f.content \in Range(ok)

\* C1 witness: a download that returned after a mix of 200 and other statuses
C1_Witness ==
    /\ DownloadReturned
    /\ \E a, b \in 1..Len(responses) : responses[a] = 200 /\ responses[b] # 200
    /\ Len(lidar_data) >= 1

\* C2: a fetch failure (another status, or requests.get raising) never leaves
\* download_lidar_data as an exception, and once the run has ended every URL
\* of the match set was fetched.
C2_FetchFailureAbsorbed ==
    (LoopEntered /\ Terminated) =>
        /\ exc # "ConnectionError"
        /\ GetCalls = Len(urls)

\* C3: after an engine failure (non-zero exit, or pdal cannot be launched)
\* and with every clean-up succeeding, the run ends with point_cloud_to_tif
\* called on every downloaded file and no exception left uncaught.
C3_EngineFailureDoesNotAbort ==
    ( /\ Terminated
      /\ \E k \in 1..Len(calls) : calls[k].engine \in {"nonzero", "nolaunch"}
      /\ \A k \in 1..Len(calls) : calls[k].remove # "failed" ) =>
        /\ exc = "none"
        /\ Len(calls) = Len(lidar_data)

C5_ExecutorOncePerDownloadedFile ==
    (DownloadReturned /\ Terminated) =>
        IF args.to_dtm # 0
        THEN /\ Len(calls) = Len(lidar_data)
             /\ \A k \in 1..Len(calls) :
                    calls[k].input_las = PathJoin(args.output, lidar_data[k])
        ELSE calls = <<>>

\* the decimal text of a class code below ten
DigitText(n) == <<"0", "1", "2", "3", "4", "5", "6", "7", "8", "9">>[n + 1]

CodeText(c) == IF c.t = "int" THEN DigitText(c.n) ELSE c.s

\* e is "Classification == c" for every code, joined by " || "
IsOrOfEqualities(e, codes) ==
    IF Len(codes) = 0 THEN e = <<>>
    ELSE /\ Len(e) = 3 * Len(codes) - 1
         /\ \A n \in 1..Len(codes) :
                /\ e[3 * n - 2] = ClassEq
                /\ e[3 * n - 1] = CodeText(codes[n])
                /\ n < Len(codes) => e[3 * n] = OrOp

\* C6: the pipeline of every call is [input, writer] when classes is the
\* 'ALL' sentinel, and otherwise [input, filter, writer] with the filter's
\* expression the equality tests of the codes, in order, joined by " || ".
C6_PipelineShape ==
    \A k \in 1..Len(calls) :
        LET c == calls[k]
            p == c.pipeline
        IN  /\ p[1] = c.input_las
            /\ p[Len(p)].type = "writers.gdal"
            /\ IF c.classes.py = "str" /\ c.classes.s = All
               THEN Len(p) = 2
               ELSE /\ Len(p) = 3
                    /\ p[2].type = "filters.expression"
                    /\ IsOrOfEqualities(p[2].expression, c.classes.l)

\* C6 witness: a call with two codes and a three-stage pipeline
C6_Witness ==
    \E k \in 1..Len(calls) :
        /\ calls[k].classes.py = "list"
        /\ Len(calls[k].classes.l) = 2
        /\ Len(calls[k].pipeline) = 3

\* the configuration is invalid: an option argparse rejects, a shapefile or a
\* catalog that cannot be read, or a resolution that is not positive
ConfigInvalid ==
    \/ exc \in {"SystemExit", "DriverError"}
    \/ pc # "parse_args" /\ args.res <= 0

\* C7: in a run whose configuration is invalid no URL is fetched and no file
\* is written.
C7_ConfigErrorAbortsBeforeDownload ==
    ConfigInvalid => GetCalls = 0 /\ disk = {} /\ tmpdisk = {}

\* C8: the writer's filename of every call main makes is the output folder
\* joined with the downloaded file's name, its point-cloud extension replaced
\* by the raster extension, and differs from the input path.
C8_RasterBesideDownload ==
    \A k \in 1..Len(calls) :
        LET p == calls[k].pipeline
            raster == p[Len(p)].filename
        IN  /\ raster = PathJoin(args.output, StrReplace(lidar_data[k], LazExt, TifExt))
            /\ raster # calls[k].input_las

\* C9: when every fetch succeeded, the list returned has one entry per URL
\* and the output folder holds one downloaded file per URL.
C9_OneFilePerUrl ==
    (DownloadReturned /\ \A k \in 1..Len(responses) : responses[k] = 200) =>
        /\ Len(lidar_data) = Len(urls)
        /\ Cardinality({f \in disk : f.content \in Range(urls)}) = Len(urls)

\* C10: after a description file could not be deleted (the engine having been
\* launched every time), the run ends with no exception left uncaught and
\* point_cloud_to_tif called on every downloaded file.
C10_CleanupFailureNotFatal ==
    ( /\ Terminated
      /\ \E k \in 1..Len(calls) : calls[k].remove = "failed"
      /\ \A k \in 1..Len(calls) : calls[k].engine # "nolaunch" ) =>
        /\ exc = "none"
        /\ Len(calls) = Len(lidar_data)
        /\ \A k \in 1..Len(calls) : calls[k].left = "returned"

====
